---- MODULE Spec2Model ----
(***************************************************************************)
(* debugSerial: a transmit-only UART1 debug driver for the ATmega328PB.    *)
(*                                                                         *)
(* The model follows src/debugSerial/debugSerial.cpp statement by          *)
(* statement.  One foreground thread of control (the caller of the library)*)
(* is preempted by the USART1_UDRE interrupt whenever the global interrupt *)
(* flag (SREG.I) and the UDRIE1 bit of UCSR1B are both set.  An interrupt  *)
(* service routine runs to completion: AVR hardware clears SREG.I on entry *)
(* and reti sets it again.  Reads and writes of the 8-bit head and tail    *)
(* are single instructions, so each C statement is one step.               *)
(*                                                                         *)
(* UBRR1H, UBRR1L, UCSR1A and UCSR1C (lines 104-109) are write-only device *)
(* configuration that no statement of the driver reads; they are not part  *)
(* of the state.  The transmitter may become ready at any moment, so the   *)
(* interrupt may be taken whenever it is enabled.                          *)
(***************************************************************************)
EXTENDS Integers, Sequences, FiniteSets, TLC

\* ------------------------------------------------------------------ bounds
\* Calls of uart1_print_char (or of debug_buffer_put in the buffer harness).
MaxEmits == 101
\* The first MaxFreeEmits bytes are chosen freely among two values each.
MaxFreeEmits == 1
\* Calls of debugSerialBegin in one run.
MaxBegins == 2
\* debugSerialBegin is called again (and, in the buffer harness,
\* debug_buffer_init is called) only while at most this many bytes have
\* been emitted.
MaxEmitsBeforeRebegin == 2
\* A run that has called debugSerialBegin again emits at most
\* MaxEmitsBeforeRebegin + MaxEmitsAfterRebegin bytes altogether.
MaxEmitsAfterRebegin == 3
\* Handler invocations while one call of debugSerialBegin is in progress
\* (the call lasts a few instructions, a byte on the line thousands).
MaxIsrInBegin == 2
\* debugPrintInt is tried on every value of -MaxSmallInt..MaxSmallInt,
\* besides the values of IntSamples.
MaxSmallInt == 11

\* debugPrintln is tried on every string of at most MaxStrLen characters
\* over StrChars.
MaxStrLen == 3
\* debugPrintFloatln is tried on the values n / 2^MaxFracBits with
\* -MaxFloatNum <= n <= MaxFloatNum and on 0..MaxDecimalPlaces decimal
\* places.  On these values every float operation of debugPrintFloat is
\* exact (no result needs more than 24 significant bits).
MaxFracBits == 3
MaxFloatNum == 20
MaxDecimalPlaces == 3

\* Calls of uart1_print_char in a run of the specification with fairness.
MaxFairEmits == 4

\* ------------------------------------------------------- program constants
DEBUG_BUFFER_SIZE == 100
INT32_MAX == 2147483647
INT32_MIN == (-INT32_MAX) - 1

Index == 0 .. (DEBUG_BUFFER_SIZE - 1)

\* Bits of UCSR1B the driver writes.
TXEN1 == "TXEN1"
UDRIE1 == "UDRIE1"

VARIABLES
    \* static debugRingBuffer_t debugTxBuffer
    debugBuffer, debugHead, debugTail,
    \* device and CPU
    UCSR1B,      \* set of the bits that are 1
    SREG_I,      \* global interrupt enable
    udrLog,      \* every byte written to UDR1, in order
    \* foreground control
    pc,          \* position of the caller / debugSerialBegin / debugPrintInt
    epc,         \* position inside uart1_print_char ("none": not in it)
    data,        \* uart1_print_char's parameter
    was_empty,   \* uart1_print_char's local
    \* debugPrintInt's parameter and locals
    value, digits, count, negOvf,
    \* results handed back by the ring buffer functions
    put_ret, get_ret, get_data,
    \* history
    emitLog,     \* bytes handed to the producer entry point, in order
    putLog,      \* bytes debug_buffer_put stored, in order
    getLog,      \* bytes debug_buffer_get returned, in order
    beginCount,  \* calls of debugSerialBegin so far
    pendingAtBegin, \* bytes queued when debugSerialBegin was last called
    entryI,      \* SREG_I when uart1_print_char was last entered
    entryUDRIE,  \* UDRIE1 when uart1_print_char was last entered
    isrInBegin,  \* handler invocations during the current call of begin
    armCalls,    \* executions of line 128 in the current call
    edge,        \* the current call's put made an empty buffer non-empty
    intArg,      \* the argument of the debugPrintInt call
    \* the print helpers
    fn,          \* the helper the caller has called ("none": none yet)
    strArg, str, \* debugPrintln's argument; str: what is left to send
    fltArg,      \* debugPrintFloatln's argument, in units of 1/FloatDen
    fvalue,      \* debugPrintFloat's value, in units of 1/FloatDen
    decimalPlaces, decimalPart, \* decimalPart in units of 1/FloatDen
    fi           \* debugPrintFloat's loop counter i

bufVars == <<debugBuffer, debugHead, debugTail>>
intVars == <<value, digits, count, negOvf, intArg>>
emitLocals == <<data, was_empty, entryI, entryUDRIE, armCalls, edge>>
retVars == <<put_ret, get_ret, get_data>>
lnVars == <<fn, strArg, str, fltArg, fvalue, decimalPlaces, decimalPart, fi>>
vars == <<debugBuffer, debugHead, debugTail, UCSR1B, SREG_I, udrLog, pc, epc,
          data, was_empty, value, digits, count, negOvf, put_ret, get_ret,
          get_data, emitLog, putLog, getLog, beginCount, pendingAtBegin,
          entryI, entryUDRIE, armCalls, edge, intArg, isrInBegin, fn, strArg,
          str, fltArg, fvalue, decimalPlaces, decimalPart, fi>>

\* ------------------------------------------------------------ arithmetic
U8(x) == x % 256

\* C's integer division and remainder truncate toward zero.
\* b > 0 here.  \div rounds down, so a negative inexact quotient is one more.
CDiv(a, b) == IF a < 0 /\ a % b # 0 THEN (a \div b) + 1 ELSE a \div b
CMod(a, b) == IF a < 0 /\ a % b # 0 THEN (a % b) - b ELSE a % b

\* The queued bytes, oldest first: (h - t) mod C of them, storage[t],
\* storage[t+1], ... with the indices modulo the capacity.
QueueFrom(buf, t, h) ==
    [i \in 1 .. ((h - t) % DEBUG_BUFFER_SIZE) |->
        buf[(t + i - 1) % DEBUG_BUFFER_SIZE]]

Queue == QueueFrom(debugBuffer, debugTail, debugHead)

Range(s) == {s[i] : i \in 1 .. Len(s)}

\* ------------------------------------------------------------ ring buffer
debug_buffer_init ==
    /\ debugHead' = 0
    /\ debugTail' = 0

debug_buffer_is_empty == debugHead = debugTail

\* Mutant: the buffer counts as full one byte early.
debug_buffer_is_full_early ==
    \/ ((debugHead + 1) % DEBUG_BUFFER_SIZE) = debugTail
    \/ ((debugHead + 2) % DEBUG_BUFFER_SIZE) = debugTail

\* Mutant: the buffer counts as full when head has caught up with tail.
debug_buffer_is_full_same == (debugHead % DEBUG_BUFFER_SIZE) = debugTail

\* Mutant: the wrap-around of head + 1 is forgotten.
debug_buffer_is_full_nomod == (debugHead + 1) = debugTail

debug_buffer_is_full == ((debugHead + 1) % DEBUG_BUFFER_SIZE) = debugTail

\* Mutant: head is advanced before the byte is stored.
debug_buffer_put_preinc(d) ==
    /\ IF ~(((debugHead + 1) % DEBUG_BUFFER_SIZE) = debugTail)
       THEN /\ debugBuffer' = [debugBuffer EXCEPT
                 ![(debugHead + 1) % DEBUG_BUFFER_SIZE] = d]
            /\ debugHead' = U8((debugHead + 1) % DEBUG_BUFFER_SIZE)
            /\ putLog' = Append(putLog, d)
       ELSE UNCHANGED <<debugBuffer, debugHead, putLog>>
    /\ put_ret' = "void"

\* Mutant: the byte is stored without the test for a full buffer.
debug_buffer_put_nocheck(d) ==
    /\ debugBuffer' = [debugBuffer EXCEPT ![debugHead] = d]
    /\ debugHead' = U8((debugHead + 1) % DEBUG_BUFFER_SIZE)
    /\ putLog' = Append(putLog, d)
    /\ put_ret' = "void"

debug_buffer_put(d) ==
    /\ IF ~debug_buffer_is_full
       THEN /\ debugBuffer' = [debugBuffer EXCEPT ![debugHead] = d]
            /\ debugHead' = U8((debugHead + 1) % DEBUG_BUFFER_SIZE)
            /\ putLog' = Append(putLog, d)
       ELSE UNCHANGED <<debugBuffer, debugHead, putLog>>
    /\ put_ret' = "void"

\* Mutant: tail is advanced without the modulo.
debug_buffer_get_nowrap ==
    IF ~(debugHead = debugTail)
    THEN /\ get_data' = debugBuffer[debugTail]
         /\ debugTail' = U8(debugTail + 1)
         /\ getLog' = Append(getLog, debugBuffer[debugTail])
         /\ get_ret' = TRUE
    ELSE /\ get_ret' = FALSE
         /\ UNCHANGED <<get_data, debugTail, getLog>>

\* Mutant: the byte is read after tail was advanced.
debug_buffer_get_postread ==
    IF ~(debugHead = debugTail)
    THEN /\ get_data' = debugBuffer[(debugTail + 1) % DEBUG_BUFFER_SIZE]
         /\ debugTail' = U8((debugTail + 1) % DEBUG_BUFFER_SIZE)
         /\ getLog' = Append(getLog,
                             debugBuffer[(debugTail + 1) % DEBUG_BUFFER_SIZE])
         /\ get_ret' = TRUE
    ELSE /\ get_ret' = FALSE
         /\ UNCHANGED <<get_data, debugTail, getLog>>

debug_buffer_get ==
    IF ~debug_buffer_is_empty
    THEN /\ get_data' = debugBuffer[debugTail]
         /\ debugTail' = U8((debugTail + 1) % DEBUG_BUFFER_SIZE)
         /\ getLog' = Append(getLog, debugBuffer[debugTail])
         /\ get_ret' = TRUE
    ELSE /\ get_ret' = FALSE
         /\ UNCHANGED <<get_data, debugTail, getLog>>

\* ----------------------------------------------------------------- Init
\* Power-on reset: .bss is zeroed, UCSR1B is 0, interrupts are disabled.
Init ==
    /\ debugBuffer = [i \in Index |-> 0]
    /\ debugHead = 0
    /\ debugTail = 0
    /\ UCSR1B = {}
    /\ SREG_I = FALSE
    /\ udrLog = <<>>
    /\ pc = "idle"
    /\ epc = "none"
    /\ data = 0
    /\ was_empty = FALSE
    /\ value = 0
    /\ digits = [i \in 0 .. 9 |-> 0]
    /\ count = 0
    /\ negOvf = "no"
    /\ put_ret = "none"
    /\ get_ret = FALSE
    /\ get_data = 0
    /\ emitLog = <<>>
    /\ putLog = <<>>
    /\ getLog = <<>>
    /\ beginCount = 0
    /\ pendingAtBegin = {}
    /\ entryI = FALSE
    /\ entryUDRIE = FALSE
    /\ armCalls = 0
    /\ edge = FALSE
    /\ intArg = 0
    /\ isrInBegin = 0
    /\ fn = "none"
    /\ strArg = <<>>
    /\ str = <<>>
    /\ fltArg = 0
    /\ fvalue = 0
    /\ decimalPlaces = 0
    /\ decimalPart = 0
    /\ fi = 0

\* ----------------------------------------------------- debugSerialBegin
\* Lines 104-109: the register writes; UCSR1B is assigned, not or-ed.
begin_ucsr ==
    /\ pc = "idle" /\ epc = "none"
    /\ beginCount < MaxBegins
    /\ beginCount = 0 \/ Len(emitLog) <= MaxEmitsBeforeRebegin
    /\ UCSR1B' = {TXEN1, UDRIE1}
    /\ beginCount' = beginCount + 1
    /\ pendingAtBegin' = Range(Queue)
    /\ isrInBegin' = 0
    /\ pc' = "begin_head"
    /\ UNCHANGED <<bufVars, SREG_I, udrLog, epc, emitLocals, intVars, retVars,
                   emitLog, putLog, getLog>>
    /\ UNCHANGED lnVars

\* Line 31, reached through the call of line 111.
begin_head ==
    /\ pc = "begin_head"
    /\ debugHead' = 0
    /\ pc' = "begin_tail"
    /\ UNCHANGED <<debugBuffer, debugTail, UCSR1B, SREG_I, udrLog, epc,
                   emitLocals, intVars, retVars, emitLog, putLog, getLog,
                   beginCount, pendingAtBegin, isrInBegin>>
    /\ UNCHANGED lnVars

\* Mutant: debug_buffer_init resets head only.
begin_tail_keep ==
    /\ pc = "begin_tail"
    /\ pc' = "idle"
    /\ UNCHANGED <<bufVars, UCSR1B, SREG_I, udrLog, epc, emitLocals, intVars,
                   retVars, emitLog, putLog, getLog, beginCount,
                   pendingAtBegin, isrInBegin>>
    /\ UNCHANGED lnVars

\* Line 32; debug_buffer_init and debugSerialBegin then return.
begin_tail ==
    /\ pc = "begin_tail"
    /\ debugTail' = 0
    /\ pc' = "idle"
    /\ UNCHANGED <<debugBuffer, debugHead, UCSR1B, SREG_I, udrLog, epc,
                   emitLocals, intVars, retVars, emitLog, putLog, getLog,
                   beginCount, pendingAtBegin, isrInBegin>>
    /\ UNCHANGED lnVars

\* ----------------------------------------------------- uart1_print_char
\* Mutant: uart1_print_char arms the notification on entry, before it has
\* looked at the buffer.
uart1_cli_arm(d) ==
    /\ epc = "none"
    /\ data' = d
    /\ emitLog' = Append(emitLog, d)
    /\ entryI' = SREG_I
    /\ entryUDRIE' = (UDRIE1 \in UCSR1B)
    /\ armCalls' = 0
    /\ edge' = FALSE
    /\ SREG_I' = FALSE
    /\ UCSR1B' = UCSR1B \cup {UDRIE1}
    /\ epc' = "chk"
    /\ UNCHANGED <<bufVars, udrLog, was_empty, retVars, putLog, getLog,
                   beginCount, pendingAtBegin, isrInBegin>>

\* Mutant: uart1_print_char does not disable interrupts.
uart1_nocli(d) ==
    /\ epc = "none"
    /\ data' = d
    /\ emitLog' = Append(emitLog, d)
    /\ entryI' = SREG_I
    /\ entryUDRIE' = (UDRIE1 \in UCSR1B)
    /\ armCalls' = 0
    /\ edge' = FALSE
    /\ epc' = "chk"
    /\ UNCHANGED <<bufVars, UCSR1B, SREG_I, udrLog, was_empty, retVars,
                   putLog, getLog, beginCount, pendingAtBegin, isrInBegin>>

\* The call and line 124, cli().  The caller states what becomes of pc and
\* of debugPrintInt's variables.
uart1_cli(d) ==
    /\ epc = "none"
    /\ data' = d
    /\ emitLog' = Append(emitLog, d)
    /\ entryI' = SREG_I
    /\ entryUDRIE' = (UDRIE1 \in UCSR1B)
    /\ armCalls' = 0
    /\ edge' = FALSE
    /\ SREG_I' = FALSE
    /\ epc' = "chk"
    /\ UNCHANGED <<bufVars, UCSR1B, udrLog, was_empty, retVars, putLog,
                   getLog, beginCount, pendingAtBegin, isrInBegin>>

\* Line 125.
uart1_chk ==
    /\ epc = "chk"
    /\ was_empty' = debug_buffer_is_empty
    /\ epc' = "put"
    /\ UNCHANGED <<bufVars, UCSR1B, SREG_I, udrLog, pc, data, entryI,
                   entryUDRIE, armCalls, edge, intVars, retVars, emitLog,
                   putLog, getLog, beginCount, pendingAtBegin, isrInBegin>>
    /\ UNCHANGED lnVars

\* Line 126.
uart1_put ==
    /\ epc = "put"
    /\ debug_buffer_put(data)
    /\ edge' = (debug_buffer_is_empty /\ debugHead' # debugTail)
    /\ epc' = "arm"
    /\ UNCHANGED <<debugTail, UCSR1B, SREG_I, udrLog, pc, data, was_empty,
                   entryI, entryUDRIE, armCalls, intVars, get_ret, get_data,
                   emitLog, getLog, beginCount, pendingAtBegin, isrInBegin>>
    /\ UNCHANGED lnVars

\* Mutant: uart1_print_char never arms the notification.
uart1_arm_never ==
    /\ epc = "arm"
    /\ epc' = "sei"
    /\ UNCHANGED <<bufVars, UCSR1B, SREG_I, udrLog, pc, emitLocals, intVars,
                   retVars, emitLog, putLog, getLog, beginCount,
                   pendingAtBegin, isrInBegin>>
    /\ UNCHANGED lnVars

\* Mutant: the test of line 127 is inverted.
uart1_arm_inverted ==
    /\ epc = "arm"
    /\ IF ~was_empty
       THEN /\ UCSR1B' = UCSR1B \cup {UDRIE1}
            /\ armCalls' = armCalls + 1
       ELSE UNCHANGED <<UCSR1B, armCalls>>
    /\ epc' = "sei"
    /\ UNCHANGED <<bufVars, SREG_I, udrLog, pc, data, was_empty, entryI,
                   entryUDRIE, edge, intVars, retVars, emitLog, putLog,
                   getLog, beginCount, pendingAtBegin, isrInBegin>>
    /\ UNCHANGED lnVars

\* Mutant: the notification is armed on every call.
uart1_arm_always ==
    /\ epc = "arm"
    /\ UCSR1B' = UCSR1B \cup {UDRIE1}
    /\ armCalls' = armCalls + 1
    /\ epc' = "sei"
    /\ UNCHANGED <<bufVars, SREG_I, udrLog, pc, data, was_empty, entryI,
                   entryUDRIE, edge, intVars, retVars, emitLog, putLog,
                   getLog, beginCount, pendingAtBegin, isrInBegin>>
    /\ UNCHANGED lnVars

\* Lines 127-129.
uart1_arm ==
    /\ epc = "arm"
    /\ IF was_empty
       THEN /\ UCSR1B' = UCSR1B \cup {UDRIE1}
            /\ armCalls' = armCalls + 1
       ELSE UNCHANGED <<UCSR1B, armCalls>>
    /\ epc' = "sei"
    /\ UNCHANGED <<bufVars, SREG_I, udrLog, pc, data, was_empty, entryI,
                   entryUDRIE, edge, intVars, retVars, emitLog, putLog,
                   getLog, beginCount, pendingAtBegin, isrInBegin>>
    /\ UNCHANGED lnVars

\* Mutant: the interrupt flag saved on entry is restored.
uart1_sei_restore ==
    /\ epc = "sei"
    /\ SREG_I' = entryI
    /\ epc' = "none"
    /\ UNCHANGED <<bufVars, UCSR1B, udrLog, pc, emitLocals, intVars, retVars,
                   emitLog, putLog, getLog, beginCount, pendingAtBegin,
                   isrInBegin>>
    /\ UNCHANGED lnVars

\* Line 130, sei(), and the return.
uart1_sei ==
    /\ epc = "sei"
    /\ SREG_I' = TRUE
    /\ epc' = "none"
    /\ UNCHANGED <<bufVars, UCSR1B, udrLog, pc, emitLocals, intVars, retVars,
                   emitLog, putLog, getLog, beginCount, pendingAtBegin,
                   isrInBegin>>
    /\ UNCHANGED lnVars

\* The byte of the next direct call: bytes are pairwise different and never
\* 0, the value of a slot that was never written.
NextBytes ==
    IF Len(emitLog) < MaxFreeEmits
    THEN {2 * Len(emitLog) + 1, 2 * Len(emitLog) + 2}
    ELSE {2 * Len(emitLog) + 1}

\* The caller calls uart1_print_char; debugSerialBegin has run before.
EmitCall ==
    /\ pc = "idle"
    /\ beginCount >= 1
    /\ Len(emitLog) < MaxEmits
    /\ beginCount = 1
       \/ Len(emitLog) < MaxEmitsBeforeRebegin + MaxEmitsAfterRebegin
    /\ \E d \in NextBytes : uart1_cli(d)
    /\ UNCHANGED <<pc, intVars>>
    /\ UNCHANGED lnVars

InBegin == pc \in {"begin_head", "begin_tail"}

\* The interrupt is taken when SREG.I and UDRIE1 are set (and the
\* transmitter is ready, which it may be at any moment).
IsrEnabled ==
    /\ SREG_I
    /\ UDRIE1 \in UCSR1B
    /\ InBegin => isrInBegin < MaxIsrInBegin

\* Mutant: the handler disarms as soon as it has taken the last byte.
ISR_USART1_UDRE_disarm_last ==
    /\ IsrEnabled
    /\ debug_buffer_get
    /\ IF get_ret'
       THEN /\ udrLog' = Append(udrLog, get_data')
            /\ UCSR1B' = IF debugHead = debugTail'
                          THEN UCSR1B \ {UDRIE1} ELSE UCSR1B
       ELSE /\ UCSR1B' = UCSR1B \ {UDRIE1}
            /\ UNCHANGED udrLog
    /\ UNCHANGED <<debugBuffer, debugHead, SREG_I, pc, epc, emitLocals,
                   intVars, put_ret, emitLog, putLog, beginCount,
                   pendingAtBegin>>
    /\ isrInBegin' = IF InBegin THEN isrInBegin + 1 ELSE isrInBegin
    /\ UNCHANGED lnVars

\* Mutant: the handler leaves the notification armed on an empty buffer.
ISR_USART1_UDRE_no_disarm ==
    /\ IsrEnabled
    /\ IF debugHead # debugTail
       THEN /\ get_data' = debugBuffer[debugTail]
            /\ debugTail' = U8((debugTail + 1) % DEBUG_BUFFER_SIZE)
            /\ getLog' = Append(getLog, debugBuffer[debugTail])
            /\ get_ret' = TRUE
            /\ udrLog' = Append(udrLog, debugBuffer[debugTail])
       ELSE /\ get_ret' = FALSE
            /\ UNCHANGED <<get_data, debugTail, getLog, udrLog>>
    /\ UNCHANGED <<debugBuffer, debugHead, UCSR1B, SREG_I, pc, epc,
                   emitLocals, intVars, put_ret, emitLog, putLog, beginCount,
                   pendingAtBegin>>
    /\ isrInBegin' = IF InBegin THEN isrInBegin + 1 ELSE isrInBegin
    /\ UNCHANGED lnVars

\* --------------------------------------------------- ISR(USART1_UDRE_vect)
ISR_USART1_UDRE ==
    /\ IsrEnabled
    /\ debug_buffer_get
    /\ IF get_ret'
       THEN /\ udrLog' = Append(udrLog, get_data')
            /\ UNCHANGED UCSR1B
       ELSE /\ UCSR1B' = UCSR1B \ {UDRIE1}
            /\ UNCHANGED udrLog
    /\ UNCHANGED <<debugBuffer, debugHead, SREG_I, pc, epc, emitLocals,
                   intVars, put_ret, emitLog, putLog, beginCount,
                   pendingAtBegin>>
    /\ isrInBegin' = IF InBegin THEN isrInBegin + 1 ELSE isrInBegin
    /\ UNCHANGED lnVars

\* ----------------------------------------------------------- debugPrintInt
\* Everything uart1_cli sets or leaves alone: the frame of a step of the
\* caller that calls nothing.
NoEmit ==
    UNCHANGED <<bufVars, UCSR1B, SREG_I, udrLog, epc, emitLocals, retVars,
                emitLog, putLog, getLog, beginCount, pendingAtBegin,
                isrInBegin>>

IntSamples ==
    {0, -1, 12345, -6789, INT32_MAX, INT32_MIN, INT32_MIN + 1,
     1000000000, -1000000000, 999999999, 100, -100, 1010, 90909}

IntInputs == IntSamples \cup ((-MaxSmallInt) .. MaxSmallInt)

\* The caller calls debugPrintInt(v), once, after debugSerialBegin.
PrintIntCall ==
    /\ pc = "idle" /\ epc = "none"
    /\ beginCount >= 1
    /\ emitLog = <<>>
    /\ \E v \in IntInputs :
          /\ value' = v
          /\ intArg' = v
    /\ pc' = "int_sign"
    /\ UNCHANGED <<digits, count, negOvf>>
    /\ NoEmit
    /\ UNCHANGED lnVars

\* Lines 172-173.
int_sign ==
    /\ pc = "int_sign" /\ epc = "none"
    /\ IF value < 0
       THEN /\ uart1_cli(45)
            /\ pc' = "int_neg"
       ELSE /\ pc' = "int_zero"
            /\ NoEmit
    /\ UNCHANGED intVars
    /\ UNCHANGED lnVars

\* Line 174.  -value overflows for INT32_MIN: the AVR negation leaves the
\* bit pattern of INT32_MIN, and the compiler may or may not have used that
\* a negated negative value is positive.
int_neg ==
    /\ pc = "int_neg" /\ epc = "none"
    /\ IF value = INT32_MIN
       THEN /\ value' = INT32_MIN
            /\ negOvf' \in {"wrapped", "assumed_positive"}
       ELSE /\ value' = -value
            /\ negOvf' = "no"
    /\ pc' = "int_zero"
    /\ UNCHANGED <<digits, count, intArg>>
    /\ NoEmit
    /\ UNCHANGED lnVars

\* Lines 177-183.
int_zero ==
    /\ pc = "int_zero" /\ epc = "none"
    /\ IF value = 0
       THEN /\ uart1_cli(48)
            /\ pc' = "int_ret"
            /\ UNCHANGED count
       ELSE /\ count' = 0
            /\ pc' = "int_loop"
            /\ NoEmit
    /\ UNCHANGED <<value, digits, negOvf, intArg>>
    /\ UNCHANGED lnVars

\* Mutant: the loop stops one digit early.
PrintIntLoopCond_gt9 ==
    \/ value > 9
    \/ negOvf = "assumed_positive" /\ count = 0

\* Line 185, the loop test.  Where the negation overflowed and the compiler
\* assumed a positive value, the first test is taken as true.
PrintIntLoopCond ==
    \/ value > 0
    \/ negOvf = "assumed_positive" /\ count = 0

\* Lines 185-188.
int_loop ==
    /\ pc = "int_loop" /\ epc = "none"
    /\ IF PrintIntLoopCond
       THEN /\ digits' = [digits EXCEPT ![count] = U8(48 + CMod(value, 10))]
            /\ count' = U8(count + 1)
            /\ value' = CDiv(value, 10)
            /\ pc' = pc
       ELSE /\ pc' = "int_emit"
            /\ UNCHANGED <<digits, count, value>>
    /\ UNCHANGED <<negOvf, intArg>>
    /\ NoEmit
    /\ UNCHANGED lnVars

\* Lines 190-192.
int_emit ==
    /\ pc = "int_emit" /\ epc = "none"
    /\ IF count > 0
       THEN /\ count' = count - 1
            /\ uart1_cli(digits[count - 1])
            /\ pc' = pc
       ELSE /\ pc' = "int_done"
            /\ UNCHANGED count
            /\ NoEmit
    /\ UNCHANGED <<value, digits, negOvf, intArg>>
    /\ UNCHANGED lnVars

\* Line 179, the return after '0' was sent.
int_ret ==
    /\ pc = "int_ret" /\ epc = "none"
    /\ pc' = "int_done"
    /\ UNCHANGED intVars
    /\ NoEmit
    /\ UNCHANGED lnVars

\* ------------------------------------------- debugPrint and debugPrintln
\* Frame of a step of a print helper that calls nothing.
LnNoEmit ==
    /\ NoEmit
    /\ UNCHANGED intVars

StrChars == {104, 105}

\* The C strings tried: characters other than 0.
Strings == UNION {[1 .. n -> StrChars] : n \in 0 .. MaxStrLen}

\* The caller calls debugPrintln(s), once, after debugSerialBegin; str
\* points to the characters of s followed by the terminator 0.
PrintlnCall ==
    /\ pc = "idle" /\ epc = "none"
    /\ beginCount >= 1
    /\ fn = "none"
    /\ \E s \in Strings :
          /\ strArg' = s
          /\ str' = Append(s, 0)
    /\ fn' = "debugPrintln"
    /\ pc' = "print_loop"
    /\ UNCHANGED <<fltArg, fvalue, decimalPlaces, decimalPart, fi>>
    /\ LnNoEmit

\* Mutant: debugPrint sends the string from its second character on.
print_loop_skip ==
    /\ pc = "print_loop" /\ epc = "none"
    /\ IF Head(str) # 0 /\ Len(str) = Len(strArg) + 1
       THEN /\ str' = Tail(str)
            /\ pc' = pc
            /\ NoEmit
       ELSE IF Head(str) # 0
       THEN /\ uart1_cli(Head(str))
            /\ str' = Tail(str)
            /\ pc' = pc
       ELSE /\ pc' = "ln_cr"
            /\ UNCHANGED str
            /\ NoEmit
    /\ UNCHANGED <<intVars, fn, strArg, fltArg, fvalue, decimalPlaces,
                   decimalPart, fi>>

\* Lines 142-144, debugPrint's loop; line 156 when it ends.
print_loop ==
    /\ pc = "print_loop" /\ epc = "none"
    /\ IF Head(str) # 0
       THEN /\ uart1_cli(Head(str))
            /\ str' = Tail(str)
            /\ pc' = pc
       ELSE /\ pc' = "ln_cr"
            /\ UNCHANGED str
            /\ NoEmit
    /\ UNCHANGED <<intVars, fn, strArg, fltArg, fvalue, decimalPlaces,
                   decimalPart, fi>>

\* Lines 157, 205 and 256: uart1_print_char('\r').
ln_cr ==
    /\ pc = "ln_cr" /\ epc = "none"
    /\ uart1_cli(13)
    /\ pc' = "ln_lf"
    /\ UNCHANGED <<intVars, lnVars>>

\* Lines 158, 206 and 257: uart1_print_char('\n'), and the return.
ln_lf ==
    /\ pc = "ln_lf" /\ epc = "none"
    /\ uart1_cli(10)
    /\ pc' = "ln_done"
    /\ UNCHANGED <<intVars, lnVars>>

\* -------------------------------------------------------- debugPrintIntln
\* The caller calls debugPrintIntln(v), once; line 204 calls debugPrintInt.
PrintIntlnCall ==
    /\ pc = "idle" /\ epc = "none"
    /\ beginCount >= 1
    /\ fn = "none"
    /\ \E v \in IntInputs :
          /\ value' = v
          /\ intArg' = v
    /\ fn' = "debugPrintIntln"
    /\ pc' = "int_sign"
    /\ UNCHANGED <<digits, count, negOvf, strArg, str, fltArg, fvalue,
                   decimalPlaces, decimalPart, fi>>
    /\ NoEmit

\* debugPrintInt returns to line 205.
intln_ret ==
    /\ pc = "int_done" /\ epc = "none"
    /\ fn = "debugPrintIntln"
    /\ pc' = "ln_cr"
    /\ UNCHANGED lnVars
    /\ LnNoEmit

\* ------------------------------------- debugPrintFloat, debugPrintFloatln
\* A float is held as its numerator over FloatDen.
FloatDen == 2 ^ MaxFracBits

\* The caller calls debugPrintFloatln(n / FloatDen, dp), once; line 255
\* calls debugPrintFloat.
PrintFloatlnCall ==
    /\ pc = "idle" /\ epc = "none"
    /\ beginCount >= 1
    /\ fn = "none"
    /\ \E n \in (-MaxFloatNum) .. MaxFloatNum :
          /\ fltArg' = n
          /\ fvalue' = n
    /\ decimalPlaces' \in 0 .. MaxDecimalPlaces
    /\ fn' = "debugPrintFloatln"
    /\ pc' = "flt_sign"
    /\ UNCHANGED <<strArg, str, decimalPart, fi>>
    /\ LnNoEmit

\* Lines 221-222.
flt_sign ==
    /\ pc = "flt_sign" /\ epc = "none"
    /\ IF fvalue < 0
       THEN /\ uart1_cli(45)
            /\ pc' = "flt_neg"
       ELSE /\ pc' = "flt_int"
            /\ NoEmit
    /\ UNCHANGED <<intVars, lnVars>>

\* Line 223.
flt_neg ==
    /\ pc = "flt_neg" /\ epc = "none"
    /\ fvalue' = -fvalue
    /\ pc' = "flt_int"
    /\ UNCHANGED <<fn, strArg, str, fltArg, decimalPlaces, decimalPart, fi>>
    /\ LnNoEmit

\* Lines 227-228: the conversion to int32_t truncates (value >= 0 here);
\* debugPrintInt is called with intPart, which intArg keeps.
flt_int ==
    /\ pc = "flt_int" /\ epc = "none"
    /\ value' = fvalue \div FloatDen
    /\ intArg' = fvalue \div FloatDen
    /\ pc' = "int_sign"
    /\ UNCHANGED <<digits, count, negOvf, lnVars>>
    /\ NoEmit

\* debugPrintInt returns to line 231; lines 231-233.
flt_point ==
    /\ pc = "int_done" /\ epc = "none"
    /\ fn = "debugPrintFloatln"
    /\ IF decimalPlaces > 0
       THEN /\ uart1_cli(46)
            /\ decimalPart' = fvalue - intArg * FloatDen
            /\ fi' = 0
            /\ pc' = "flt_loop"
       ELSE /\ pc' = "ln_cr"
            /\ UNCHANGED <<decimalPart, fi>>
            /\ NoEmit
    /\ UNCHANGED <<intVars, fn, strArg, str, fltArg, fvalue, decimalPlaces>>

\* Lines 236-241, one turn of the loop; the return to line 256 when it
\* ends.
flt_loop ==
    /\ pc = "flt_loop" /\ epc = "none"
    /\ IF fi < decimalPlaces
       THEN LET times10 == decimalPart * 10
                digit == times10 \div FloatDen
            IN  /\ uart1_cli(U8(48 + digit))
                /\ decimalPart' = times10 - digit * FloatDen
                /\ fi' = U8(fi + 1)
                /\ pc' = pc
       ELSE /\ pc' = "ln_cr"
            /\ UNCHANGED <<decimalPart, fi>>
            /\ NoEmit
    /\ UNCHANGED <<intVars, fn, strArg, str, fltArg, fvalue, decimalPlaces>>

\* ----------------------------------------- the ring buffer, called directly
\* debug_buffer_init on the buffer; a new sequence of puts and gets starts.
RB_init ==
    /\ Len(emitLog) <= MaxEmitsBeforeRebegin
    /\ debug_buffer_init
    /\ emitLog' = <<>>
    /\ putLog' = <<>>
    /\ getLog' = <<>>
    /\ UNCHANGED <<debugBuffer, UCSR1B, SREG_I, udrLog, pc, epc, emitLocals,
                   intVars, retVars, beginCount, pendingAtBegin, isrInBegin>>
    /\ UNCHANGED lnVars

RB_put ==
    /\ Len(emitLog) < MaxEmits
    /\ \E d \in NextBytes :
          /\ debug_buffer_put(d)
          /\ emitLog' = Append(emitLog, d)
    /\ UNCHANGED <<debugTail, UCSR1B, SREG_I, udrLog, pc, epc, emitLocals,
                   intVars, get_ret, get_data, getLog, beginCount,
                   pendingAtBegin, isrInBegin>>
    /\ UNCHANGED lnVars

RB_get ==
    /\ debug_buffer_get
    /\ UNCHANGED <<debugBuffer, debugHead, UCSR1B, SREG_I, udrLog, pc, epc,
                   emitLocals, intVars, put_ret, emitLog, putLog, beginCount,
                   pendingAtBegin>>
    /\ isrInBegin' = IF InBegin THEN isrInBegin + 1 ELSE isrInBegin
    /\ UNCHANGED lnVars

\* ------------------------------------------------------- specifications
\* The driver: debugSerialBegin, uart1_print_char and the interrupt.
Next ==
    \/ begin_ucsr
    \/ begin_head
    \/ begin_tail
    \/ EmitCall
    \/ uart1_chk
    \/ uart1_put
    \/ uart1_arm
    \/ uart1_sei
    \/ ISR_USART1_UDRE

Spec == Init /\ [][Next]_vars

\* main: debugSerialBegin, then one debugPrintInt, under the interrupt.
NextInt ==
    \/ begin_ucsr
    \/ begin_head
    \/ begin_tail
    \/ PrintIntCall
    \/ int_sign
    \/ int_neg
    \/ int_zero
    \/ int_loop
    \/ int_emit
    \/ int_ret
    \/ uart1_chk
    \/ uart1_put
    \/ uart1_arm
    \/ uart1_sei
    \/ ISR_USART1_UDRE

SpecInt == Init /\ [][NextInt]_vars

\* debugSerialBegin, then one of debugPrintln, debugPrintIntln and
\* debugPrintFloatln, under the interrupt.
NextLn ==
    \/ begin_ucsr
    \/ begin_head
    \/ begin_tail
    \/ PrintlnCall
    \/ print_loop
    \/ PrintIntlnCall
    \/ intln_ret
    \/ PrintFloatlnCall
    \/ flt_sign
    \/ flt_neg
    \/ flt_int
    \/ flt_point
    \/ flt_loop
    \/ ln_cr
    \/ ln_lf
    \/ int_sign
    \/ int_neg
    \/ int_zero
    \/ int_loop
    \/ int_emit
    \/ int_ret
    \/ uart1_chk
    \/ uart1_put
    \/ uart1_arm
    \/ uart1_sei
    \/ ISR_USART1_UDRE

SpecLn == Init /\ [][NextLn]_vars

\* The driver with debugSerialBegin called once and progress assumed: a
\* call of debugSerialBegin or of uart1_print_char, once entered, runs to
\* its return (the CPU executes the foreground whenever no handler runs),
\* and the hardware invokes the handler if it stays enabled.  The caller
\* is free to stop calling.
begin_first ==
    /\ beginCount = 0
    /\ begin_ucsr

EmitCallFair ==
    /\ Len(emitLog) < MaxFairEmits
    /\ EmitCall

Foreground ==
    \/ begin_head
    \/ begin_tail
    \/ uart1_chk
    \/ uart1_put
    \/ uart1_arm
    \/ uart1_sei

NextFair ==
    \/ begin_first
    \/ EmitCallFair
    \/ Foreground
    \/ ISR_USART1_UDRE

SpecFair ==
    /\ Init
    /\ [][NextFair]_vars
    /\ WF_vars(Foreground)
    /\ WF_vars(ISR_USART1_UDRE)

\* The ring buffer alone, its functions called in any order.
NextRB ==
    \/ RB_init
    \/ RB_put
    \/ RB_get

SpecRB == Init /\ [][NextRB]_vars

\* ------------------------------------------------------------ properties
IsPrefix(s, t) == Len(s) <= Len(t) /\ SubSeq(t, 1, Len(s)) = s

\* s is t with some elements left out: each element of s is matched with the
\* first later element of t that equals it.
RECURSIVE SubseqFrom(_, _, _, _)
SubseqFrom(s, t, i, j) ==
    IF i > Len(s) THEN TRUE
    ELSE IF j > Len(t) THEN FALSE
    ELSE IF s[i] = t[j] THEN SubseqFrom(s, t, i + 1, j + 1)
    ELSE SubseqFrom(s, t, i, j + 1)

IsSubseq(s, t) == SubseqFrom(s, t, 1, 1)

Last(s) == s[Len(s)]

\* No emitted byte was refused by a full buffer (a call that has not reached
\* its put yet has one byte more in emitLog than in putLog).
NoDrop == IsPrefix(putLog, emitLog)

\* A step of uart1_print_char, a return from it, a step of the handler.
EmitStep == epc' # epc
EmitReturn == epc = "sei" /\ epc' = "none"
IsrStep == pc' = pc /\ epc' = epc

\* C1: after a single begin, the bytes written to the output register are
\* the emitted bytes in emit order with none reordered, duplicated or
\* invented: an order-preserving subsequence of the emitted sequence, and a
\* prefix of it as long as no byte was dropped for overflow.
C1_TransmitFifo ==
    beginCount <= 1 =>
        /\ IsSubseq(udrLog, emitLog)
        /\ NoDrop => IsPrefix(udrLog, emitLog)

\* A byte was dropped, and a byte emitted after it has been transmitted
\* behind the 99 that were queued.
C1_Witness ==
    /\ beginCount = 1
    /\ Len(udrLog) >= DEBUG_BUFFER_SIZE
    /\ ~IsPrefix(udrLog, emitLog)

\* C2: with no put on a full buffer, the bytes get has returned, followed
\* by the bytes still queued, are the bytes put, in the order of the puts.
C2_BufferFifo ==
    emitLog = putLog => getLog \o Queue = putLog

\* Puts and gets interleaved until head has wrapped around behind tail.
C2_Witness ==
    /\ emitLog = putLog
    /\ Len(putLog) > DEBUG_BUFFER_SIZE
    /\ Len(getLog) >= 2
    /\ debugHead < debugTail

\* A call of debug_buffer_put in the buffer harness.
RBPutStep == Len(emitLog') = Len(emitLog) + 1

\* C3 as amended: when C-1 more bytes have been stored than taken (so after
\* C-1 puts into an empty buffer with no get in between) is_full() is true,
\* and a put on a full buffer changes neither head, tail nor any slot; the
\* put hands nothing back to its caller.
C3_CapacityNoMutation ==
    [][ /\ Len(putLog') - Len(getLog') = DEBUG_BUFFER_SIZE - 1
            => debug_buffer_is_full'
        /\ RBPutStep /\ debug_buffer_is_full
            => /\ UNCHANGED <<debugHead, debugTail, debugBuffer>>
               /\ put_ret' = "void" ]_vars

\* C-1 puts into the empty buffer, no get, and a further put was refused.
C3_Witness ==
    /\ Len(getLog) = 0
    /\ Len(putLog) = DEBUG_BUFFER_SIZE - 1
    /\ Len(emitLog) = DEBUG_BUFFER_SIZE
    /\ debug_buffer_is_full

\* C3 as stated: ... and the next put returns false without mutating state.
C3_Original ==
    [][ /\ Len(putLog') - Len(getLog') = DEBUG_BUFFER_SIZE - 1
            => debug_buffer_is_full'
        /\ RBPutStep /\ debug_buffer_is_full
            => /\ UNCHANGED <<debugHead, debugTail, debugBuffer>>
               /\ put_ret' = "false" ]_vars

\* C4: while the buffer is full no step of emit changes head, tail, the
\* storage or the notification bit, and (with a single begin) the bytes
\* stored and not yet transmitted stay queued, complete and in order, so
\* that the handler transmits them next.
C4_DropOnFull ==
    [][ /\ EmitStep /\ debug_buffer_is_full
            => UNCHANGED <<debugHead, debugTail, debugBuffer, UCSR1B>>
        /\ beginCount' = 1 => udrLog' \o Queue' = putLog' ]_vars

\* A byte was dropped and the 99 bytes queued then have all been transmitted.
C4_Witness ==
    /\ beginCount = 1
    /\ epc = "none"
    /\ Len(emitLog) > Len(putLog)
    /\ Len(udrLog) >= DEBUG_BUFFER_SIZE - 1

\* C5: a call of emit executes the arm operation once if its put took the
\* buffer from empty to non-empty and not at all otherwise; a call made
\* while the buffer is non-empty leaves UCSR1B as it is.
C5_EdgeTriggeredArm ==
    [][ epc = "arm" /\ epc' = "sei"
            => /\ armCalls' = (IF edge THEN 1 ELSE 0)
               /\ ~edge => UCSR1B' = UCSR1B ]_vars

\* The second of two emits in succession, past its arm decision.
C5_Witness ==
    /\ epc = "sei"
    /\ Len(emitLog) = 2
    /\ Len(Queue) = 2
    /\ armCalls = 0
    /\ UDRIE1 \in UCSR1B

\* C6: a handler invocation that finds the buffer empty disarms the
\* notification and writes nothing; an emit entered with the notification
\* disarmed returns with it armed, interrupts enabled and its byte alone in
\* the queue; a handler invocation on a non-empty buffer hands the oldest
\* queued byte to the transmitter.
C6_DrainToIdle ==
    [][ /\ IsrStep /\ debug_buffer_is_empty
            => UDRIE1 \notin UCSR1B' /\ udrLog' = udrLog
        /\ EmitReturn /\ ~entryUDRIE
            => UDRIE1 \in UCSR1B' /\ SREG_I' /\ Queue' = <<data>>
        /\ IsrStep /\ ~debug_buffer_is_empty
            => udrLog' = Append(udrLog, Head(Queue)) ]_vars

\* The round trip: bytes were drained, the handler disarmed, an emit found
\* the notification disarmed, its byte was transmitted, and the handler has
\* disarmed again.
C6_Witness ==
    /\ epc = "none"
    /\ ~entryUDRIE
    /\ Len(udrLog) >= 2
    /\ Last(udrLog) = data
    /\ debug_buffer_is_empty
    /\ UDRIE1 \notin UCSR1B

\* C7 as amended: interrupts are disabled from emit's cli to its sei, and
\* emit returns with the global interrupt enabled on every path, the drop
\* path included, whether interrupts were enabled or disabled on entry.
C7_ReturnsEnabled ==
    [][ /\ EmitReturn => SREG_I'
        /\ epc' \in {"chk", "put", "arm", "sei"} => ~SREG_I' ]_vars

\* The first emit of main: entered with interrupts disabled, returned with
\* them enabled.
C7_Witness ==
    /\ epc = "none"
    /\ Len(emitLog) = 1
    /\ ~entryI
    /\ SREG_I

\* C7 as stated: the interrupt-enable state after emit returns equals the
\* state at the moment emit was entered.
C7_Original ==
    [][ EmitReturn => SREG_I' = entryI ]_vars

\* C8: when begin returns, head = tail = 0 and the buffer is empty, and no
\* byte that was pending when begin was called is written to the output
\* register once begin has returned.
C8_BeginResets ==
    [][ /\ pc = "begin_tail" /\ pc' = "idle"
            => debugHead' = 0 /\ debugTail' = 0 /\ debug_buffer_is_empty'
        /\ ~InBegin /\ Len(udrLog') > Len(udrLog)
            => Last(udrLog') \notin pendingAtBegin ]_vars

\* A repeated begin discarded two pending bytes, and a byte emitted after
\* it has been transmitted.
C8_Witness ==
    /\ beginCount = 2
    /\ pc = "idle" /\ epc = "none"
    /\ Cardinality(pendingAtBegin) = 2
    /\ Len(emitLog) >= 3
    /\ Len(udrLog) >= 1
    /\ Last(udrLog) = Last(emitLog)

\* The decimal digits of n >= 0, most significant first.
RECURSIVE Dec(_)
Dec(n) == IF n < 10 THEN <<48 + n>> ELSE Append(Dec(n \div 10), 48 + (n % 10))

Canonical(v) == IF v < 0 THEN <<45>> \o Dec(-v) ELSE Dec(v)

\* C9: for every v other than INT32_MIN, print_int emits the canonical
\* decimal representation of v: '-' exactly when v < 0, then the digits of
\* |v| most significant first without leading zeros ("0" for 0), at most
\* 10 of them, filled into slots 0..9 of the digit buffer.
C9_PrintIntCanonical ==
    /\ pc = "int_done" /\ intArg # INT32_MIN
        => /\ emitLog = Canonical(intArg)
           /\ Len(emitLog) <= (IF intArg < 0 THEN 11 ELSE 10)
           /\ intArg = 0 => emitLog = <<48>>
           /\ intArg = -1 => emitLog = <<45, 49>>
           /\ intArg = 12345 => emitLog = <<49, 50, 51, 52, 53>>
           /\ intArg = -6789 => emitLog = <<45, 54, 55, 56, 57>>
           /\ intArg = INT32_MAX
                => emitLog = <<50, 49, 52, 55, 52, 56, 51, 54, 52, 55>>
    /\ pc = "int_loop" /\ intArg # INT32_MIN /\ PrintIntLoopCond
        => count < 10

\* print_int(-6789) has returned.
C9_Witness ==
    /\ pc = "int_done"
    /\ intArg = -6789
    /\ Len(emitLog) = 5

\* C10 as stated: for INT32_MIN print_int emits "-2147483648" and never
\* indexes the digit buffer out of range.
C10_Original ==
    /\ pc = "int_done" /\ intArg = INT32_MIN
        => emitLog = <<45, 50, 49, 52, 55, 52, 56, 51, 54, 52, 56>>
    /\ pc = "int_loop" /\ intArg = INT32_MIN /\ PrintIntLoopCond
        => count < 10

\* The digits after the point of num / FloatDen (0 <= num < FloatDen), n
\* of them: the decimal expansion, cut off.
RECURSIVE FracDigits(_, _)
FracDigits(num, n) ==
    IF n = 0 THEN <<>>
    ELSE <<48 + ((num * 10) \div FloatDen)>>
         \o FracDigits((num * 10) % FloatDen, n - 1)

\* The text of n / FloatDen with dp decimal places: sign, integer part,
\* and for dp > 0 the point and dp digits.
FloatText(n, dp) ==
    LET a == IF n < 0 THEN -n ELSE n
    IN  (IF n < 0 THEN <<45>> ELSE <<>>)
        \o Dec(a \div FloatDen)
        \o (IF dp > 0 THEN <<46>> \o FracDigits(a % FloatDen, dp) ELSE <<>>)

\* What the helper called was asked to print.
LnText ==
    CASE fn = "debugPrintln" -> strArg
      [] fn = "debugPrintIntln" ->
            IF intArg # INT32_MIN THEN Canonical(intArg)
            ELSE IF negOvf = "wrapped" THEN <<45>> ELSE <<45, 40>>
      [] fn = "debugPrintFloatln" -> FloatText(fltArg, decimalPlaces)
      [] OTHER -> <<>>

\* C11: println(s) emits the bytes of s in order up to the terminator and
\* then CR and LF; print_int_ln and print_float_ln emit their value's bytes
\* and then the same CR, LF; the bytes transmitted are at every moment the
\* first of the bytes emitted, and all of them once the buffer has drained
\* (println("hi") gives h, i, CR, LF).
C11_LineTermination ==
    /\ IsPrefix(udrLog, emitLog)
    /\ pc = "ln_lf" => emitLog = LnText \o <<13>>
    /\ pc = "ln_done" => emitLog = LnText \o <<13, 10>>
    /\ pc = "ln_done" /\ epc = "none" /\ debug_buffer_is_empty
        => /\ udrLog = LnText \o <<13, 10>>
           /\ fn = "debugPrintln" /\ strArg = <<104, 105>>
                => udrLog = <<104, 105, 13, 10>>

\* println("hi") has returned and its four bytes have been transmitted.
C11_Witness ==
    /\ pc = "ln_done" /\ epc = "none"
    /\ fn = "debugPrintln"
    /\ strArg = <<104, 105>>
    /\ Len(udrLog) = 4
    /\ UDRIE1 \notin UCSR1B

\* C12: in no state that init, put and get can reach are is_empty() and
\* is_full() both true.
C12_EmptyFullExclusive ==
    ~(debug_buffer_is_empty /\ debug_buffer_is_full)

\* The buffer is full with head wrapped around behind tail, after puts and
\* gets.
C12_Witness ==
    /\ debug_buffer_is_full
    /\ ~debug_buffer_is_empty
    /\ Len(getLog) >= 1
    /\ debugHead < debugTail

\* C13: in every state that begin, emit and the handler can reach, head
\* and tail are indices of the storage, 0 <= head < C and 0 <= tail < C,
\* and the successor (index + 1) mod C of either fits the 8-bit field it
\* is stored in.
C13_IndicesInRange ==
    /\ debugHead \in Index
    /\ debugTail \in Index
    /\ U8((debugHead + 1) % DEBUG_BUFFER_SIZE)
         = (debugHead + 1) % DEBUG_BUFFER_SIZE
    /\ U8((debugTail + 1) % DEBUG_BUFFER_SIZE)
         = (debugTail + 1) % DEBUG_BUFFER_SIZE

\* Both indices have wrapped from C-1 to 0: C bytes were stored and all of
\* them transmitted.
C13_Witness ==
    /\ Len(putLog) = DEBUG_BUFFER_SIZE
    /\ Len(udrLog) = DEBUG_BUFFER_SIZE
    /\ debugHead = 0
    /\ debugTail = 0

\* C14: from emit's cli until its conditional arm has completed no handler
\* invocation executes, so that the emptiness emit read is still the
\* buffer's when it puts, and tail is the same at the arm as at the read:
\* the check, the put and the conditional arm are one critical section.
C14_CriticalSection ==
    [][ /\ epc \in {"chk", "put", "arm"} => ~IsrStep
        /\ epc = "put" => was_empty = debug_buffer_is_empty
        /\ epc \in {"put", "arm"} => debugTail' = debugTail ]_vars

\* An emit entered with the handler enabled and bytes queued is between
\* its put and its conditional arm: the handler is pending and held off.
C14_Witness ==
    /\ epc = "arm"
    /\ entryI
    /\ ~was_empty
    /\ UDRIE1 \in UCSR1B
    /\ ~debug_buffer_is_empty
    /\ ~SREG_I

\* The notification goes from disarmed to armed.
Arms == UDRIE1 \notin UCSR1B /\ UDRIE1 \in UCSR1B'

C16_HandlerEffect ==
    [][ /\ IsrStep /\ ~debug_buffer_is_empty
            => /\ udrLog' = Append(udrLog, debugBuffer[debugTail])
               /\ debugTail' = (debugTail + 1) % DEBUG_BUFFER_SIZE
               /\ UNCHANGED <<debugHead, debugBuffer, UCSR1B>>
        /\ IsrStep /\ debug_buffer_is_empty
            => /\ udrLog' = udrLog
               /\ UNCHANGED <<debugHead, debugTail, debugBuffer>>
               /\ UCSR1B' = UCSR1B \ {UDRIE1}
        /\ UDRIE1 \in UCSR1B /\ UDRIE1 \notin UCSR1B'
            => IsrStep /\ debug_buffer_is_empty ]_vars

\* Both cases have happened: the handler has transmitted a byte from the
\* last slot of the storage, and a later invocation found the buffer empty
\* and disarmed.
C16_Witness ==
    /\ Len(udrLog) >= DEBUG_BUFFER_SIZE
    /\ ~get_ret
    /\ debug_buffer_is_empty
    /\ UCSR1B = {TXEN1}

\* emit's call of put, line 126.
EmitPutStep == epc = "put" /\ epc' = "arm"

\* C17: emit's byte is lost only when C-1 bytes are queued; when fewer are
\* queued emit stores the byte at storage[head] and changes no other slot,
\* advances head by one modulo C, and the queue is the old queue with the
\* byte behind it: one byte more, no queued byte overwritten.
C17_StoreUnlessFull ==
    [][ EmitPutStep =>
          /\ putLog' = putLog => Len(Queue) = DEBUG_BUFFER_SIZE - 1
          /\ Len(Queue) < DEBUG_BUFFER_SIZE - 1
               => /\ debugBuffer' = [debugBuffer EXCEPT ![debugHead] = data]
                  /\ debugHead' = (debugHead + 1) % DEBUG_BUFFER_SIZE
                  /\ debugTail' = debugTail
                  /\ Len(Queue') = Len(Queue) + 1
                  /\ Queue' = Append(Queue, data)
                  /\ putLog' = Append(putLog, data) ]_vars

\* With 98 bytes queued and head wrapped around behind tail, emit has
\* stored its byte as the 99th.
C17_Witness ==
    /\ epc = "arm"
    /\ Len(Queue) = DEBUG_BUFFER_SIZE - 1
    /\ Last(putLog) = data
    /\ debugHead < debugTail

\* C18: whenever the foreground is neither inside emit (between its cli and
\* its sei) nor inside begin, a non-empty buffer has the notification
\* armed.
C18_NonEmptyArmed ==
    epc = "none" /\ ~InBegin /\ ~debug_buffer_is_empty
        => UDRIE1 \in UCSR1B

\* The handler had drained the buffer and disarmed; an emit has returned
\* since, with its byte queued and the notification armed.
C18_Witness ==
    /\ epc = "none" /\ ~InBegin
    /\ ~entryUDRIE
    /\ Len(udrLog) >= 1
    /\ ~debug_buffer_is_empty
    /\ UDRIE1 \in UCSR1B

\* Nothing queued and the notification disarmed.
Idle == debug_buffer_is_empty /\ UDRIE1 \notin UCSR1B

\* C19: with begin called once, the n-th byte emit stored is eventually
\* the n-th byte written to the output register, for every n; and after
\* the n-th call of emit (n >= 1) the system eventually is idle, buffer
\* empty and notification disarmed, unless emit is called once more.
C19_EventualTransmission ==
    /\ \A n \in 1 .. MaxFairEmits :
          (Len(putLog) >= n)
              ~> (Len(udrLog) >= n /\ udrLog[n] = putLog[n])
    /\ \A n \in 1 .. MaxFairEmits :
          (Len(emitLog) = n) ~> (Idle \/ Len(emitLog) > n)

\* Bytes were transmitted, the handler disarmed, a further emit armed
\* again, and the system is idle once more with every byte transmitted.
C19_Witness ==
    /\ epc = "none"
    /\ ~entryUDRIE
    /\ Len(emitLog) >= 3
    /\ udrLog = emitLog
    /\ Idle

\* C20 as stated: with begin called again after earlier emits, under every
\* interleaving of the handler with begin's steps, every byte written to
\* the output register is a byte that was passed to emit, and none is
\* written twice: no stale and no never-written slot is transmitted.
C20_Original ==
    /\ Range(udrLog) \subseteq Range(emitLog)
    /\ Cardinality(Range(udrLog)) = Len(udrLog)

====
